---- MODULE Spec2Model ----
(***************************************************************************)
(* Model of the Audible library exporter (audibleLibrary.py) and of the    *)
(* credential provisioner (authenticate.py).                               *)
(*                                                                         *)
(* Text is a sequence of one-character strings.  A Python value coming     *)
(* from the decoded API payload is a record [k, n, s]: k is its type       *)
(* ("int", "float", "str", "null", or "missing" for an absent dict key),   *)
(* n its number (a float is counted in halves, so that // and % are        *)
(* exact), s its text.  The token "U+D800" stands for one character that   *)
(* UTF-8 cannot encode (a lone surrogate, which decoded JSON can hold).    *)
(* What is typed at a prompt is a sequence of Unicode code points, so that *)
(* str.strip() has the whole of its whitespace to remove.                  *)
(***************************************************************************)
EXTENDS Integers, Sequences, FiniteSets

VARIABLES
    harness,        \* which program or function this behaviour runs
    fn_in,          \* argument of the function under call
    fn_out,         \* outcome of the call: [exc, ret, logged]
    fn_pc,          \* "call" before the call, "done" after it
    \* the exporter (audibleLibrary.py)
    pc,             \* position of the run in main / get_library / write_library
    authFileExists, \* auth/audible_auth.txt exists
    log,            \* records handed to logging: [level, msg]
    uncaught,       \* class of the exception that left main uncaught, or "none"
    exitStatus,     \* -1 while the process runs, then its exit status
    credLoads,      \* calls of audible.Authenticator.from_file
    netCalls,       \* calls of client.get("1.0/library", ...)
    library,        \* the decoded response of the listing call
    idx,            \* items of the response already transformed
    book_list,      \* rows built so far
    dataDirExists,  \* data/ exists
    csvFile,        \* data/library.csv: [exists, content]
    \* the provisioner (authenticate.py); it shares pc, uncaught, exitStatus
    stdin,          \* what the user types at the two prompts
    USERNAME,       \* the stripped user name
    PASSWORD,       \* the stripped password
    calls,          \* the external and file-system operations invoked, in order
    stdout,         \* the messages printed
    authDirExists,  \* auth/ exists
    credFile        \* auth/audible_auth.txt: [exists, mode]

fnVars == <<fn_in, fn_out, fn_pc>>

provVars == <<stdin, USERNAME, PASSWORD, calls, stdout, authDirExists, credFile>>

expVars == <<pc, authFileExists, log, uncaught, exitStatus, credLoads, netCalls,
             library, idx, book_list, dataDirExists, csvFile>>

----------------------------------------------------------------------------
(* Bounds of the model *)

MaxMinutes == 725       \* integer runtimes 0..MaxMinutes (and a few negative)
MaxHalves == 250        \* float runtimes 0.0, 0.5, ... MaxHalves/2
MaxContributors == 3    \* length of a contributor list
MaxItems == 2           \* items in a listing response
MaxInputLen == 2        \* characters typed at a prompt

----------------------------------------------------------------------------
(* Python values *)

IntV(n) == [k |-> "int", n |-> n, s |-> <<>>]
FloatV(h) == [k |-> "float", n |-> h, s |-> <<>>]
StrV(t) == [k |-> "str", n |-> 0, s |-> t]
NullV == [k |-> "null", n |-> 0, s |-> <<>>]
MissingV == [k |-> "missing", n |-> 0, s |-> <<>>]

NoExc == "none"

\* One character that UTF-8 cannot encode
Unencodable == "U+D800"

\* The outcome of a call not made yet
NoOutcome == [exc |-> NoExc, ret |-> <<>>, logged |-> FALSE]

----------------------------------------------------------------------------
(* The variables of a program that does not run in a behaviour *)

\* No response received yet
NoResponse == [items |-> [k |-> "none", items |-> <<>>]]

\* A file that does not exist
NoFile == [exists |-> FALSE, content |-> <<>>]
NoCredFile == [exists |-> FALSE, mode |-> "none"]

ExporterFilesOff ==
    /\ authFileExists = FALSE /\ log = <<>> /\ credLoads = 0 /\ netCalls = 0
    /\ library = NoResponse /\ idx = 0 /\ book_list = <<>>
    /\ dataDirExists = FALSE /\ csvFile = NoFile

ExporterOff == pc = "off" /\ uncaught = NoExc /\ exitStatus = -1 /\ ExporterFilesOff

ProvisionerOff ==
    /\ stdin = [user |-> <<>>, password |-> <<>>, eof |-> "none"] /\ USERNAME = <<>> /\ PASSWORD = <<>>
    /\ calls = <<>> /\ stdout = <<>> /\ authDirExists = FALSE /\ credFile = NoCredFile

----------------------------------------------------------------------------
(* str(), str.zfill(), str.join() *)

DigitChars == <<"0", "1", "2", "3", "4", "5", "6", "7", "8", "9">>

RECURSIVE NatStr(_)
NatStr(n) == IF n < 10 THEN <<DigitChars[n + 1]>>
             ELSE NatStr(n \div 10) \o <<DigitChars[(n % 10) + 1]>>

\* str(n) of an int
IntStr(n) == IF n < 0 THEN <<"-">> \o NatStr(-n) ELSE NatStr(n)

\* str(x) of the float h/2 (repr of a float with an exact binary fraction)
FloatStr(h) ==
    LET a == IF h < 0 THEN -h ELSE h
        body == NatStr(a \div 2) \o <<".">> \o (IF a % 2 = 0 THEN <<"0">> ELSE <<"5">>)
    IN IF h < 0 THEN <<"-">> \o body ELSE body

RECURSIVE Zeros(_)
Zeros(n) == IF n <= 0 THEN <<>> ELSE <<"0">> \o Zeros(n - 1)

\* s.zfill(width): pad on the left with zeros, after a leading sign
zfill(s, width) ==
    IF Len(s) >= width THEN s
    ELSE IF Len(s) > 0 /\ s[1] \in {"+", "-"}
         THEN <<s[1]>> \o Zeros(width - Len(s)) \o Tail(s)
         ELSE Zeros(width - Len(s)) \o s

RECURSIVE join(_, _)
join(sep, parts) ==
    IF parts = <<>> THEN <<>>
    ELSE IF Len(parts) = 1 THEN parts[1]
    ELSE parts[1] \o sep \o join(sep, Tail(parts))

----------------------------------------------------------------------------
(* convert_time *)

\* convert_time's body with the minutes left unpadded
ConvertTimeBodyNoPad(m) ==
    IF m.k = "int"
    THEN [exc |-> NoExc,
          ret |-> <<m, IntStr(m.n \div 60) \o <<":">> \o IntStr(m.n % 60)>>]
    ELSE [exc |-> "TypeError", ret |-> <<>>]

\* The try body, lines 28-31: the exception it raises, or the pair it returns.
\* // and % are defined on int and float; on None, str and the rest they
\* raise TypeError.
ConvertTimeBody(m) ==
    IF m.k = "int"
    THEN [exc |-> NoExc,
          ret |-> <<m, IntStr(m.n \div 60) \o <<":">> \o zfill(IntStr(m.n % 60), 2)>>]
    ELSE IF m.k = "float"
    THEN [exc |-> NoExc,
          ret |-> <<m, FloatStr(2 * (m.n \div 120)) \o <<":">> \o zfill(FloatStr(m.n % 120), 2)>>]
    ELSE [exc |-> "TypeError", ret |-> <<>>]

\* The exception classes of the except clause, line 32
ConvertTimeCaught == {"TypeError", "ValueError"}

ConvertTimeDefault == <<IntV(0), <<"0", ":", "0", "0">>>>

convert_time(runtime_minutes) ==
    LET b == ConvertTimeBody(runtime_minutes)
    IN IF b.exc = NoExc THEN [exc |-> NoExc, ret |-> b.ret, logged |-> FALSE]
       ELSE IF b.exc \in ConvertTimeCaught
            THEN [exc |-> NoExc, ret |-> ConvertTimeDefault, logged |-> TRUE]
            ELSE [exc |-> b.exc, ret |-> <<>>, logged |-> FALSE]

----------------------------------------------------------------------------
(* get_contributors *)

\* A contributor record of the payload: a dict (with its name entry, possibly
\* missing or not a text) or something that is no dict.
Contributor(kind, name) == [k |-> kind, name |-> name]

\* contributor['name'], line 47: the exception raised, or the value
NameOf(c) ==
    IF c.k # "dict" THEN [exc |-> "TypeError", val |-> NullV]
    ELSE IF c.name.k = "missing" THEN [exc |-> "KeyError", val |-> NullV]
    ELSE [exc |-> NoExc, val |-> c.name]

\* The first exception of the list comprehension, in iteration order
RECURSIVE FirstExc(_)
FirstExc(cs) ==
    IF cs = <<>> THEN NoExc
    ELSE IF NameOf(cs[1]).exc # NoExc THEN NameOf(cs[1]).exc
    ELSE FirstExc(Tail(cs))

\* get_contributors' body with a separator after every name
ContributorsBodyTrailing(contributors) ==
    IF contributors.k # "list" THEN [exc |-> "TypeError", ret |-> <<>>]
    ELSE LET cs == contributors.items
             e == FirstExc(cs)
         IN IF e # NoExc THEN [exc |-> e, ret |-> <<>>]
            ELSE IF \E i \in 1..Len(cs) : cs[i].name.k # "str"
                 THEN [exc |-> "TypeError", ret |-> <<>>]
                 ELSE [exc |-> NoExc,
                       ret |-> join(<<>>, [i \in 1..Len(cs) |-> cs[i].name.s \o <<";">>])]

\* The try body, lines 47-48. contributors is [k, items]: a list, or None.
ContributorsBody(contributors) ==
    IF contributors.k # "list" THEN [exc |-> "TypeError", ret |-> <<>>]
    ELSE LET cs == contributors.items
             e == FirstExc(cs)
         IN IF e # NoExc THEN [exc |-> e, ret |-> <<>>]
            ELSE IF \E i \in 1..Len(cs) : cs[i].name.k # "str"
                 THEN [exc |-> "TypeError", ret |-> <<>>]
                 ELSE [exc |-> NoExc,
                       ret |-> join(<<";">>, [i \in 1..Len(cs) |-> cs[i].name.s])]

\* An except clause that forgets KeyError
ContributorsCaughtTypeOnly == {"TypeError"}

ContributorsCaught == {"TypeError", "KeyError"}

NA == <<"N", "/", "A">>

get_contributors(contributors) ==
    LET b == ContributorsBody(contributors)
    IN IF b.exc = NoExc THEN [exc |-> NoExc, ret |-> b.ret, logged |-> FALSE]
       ELSE IF b.exc \in ContributorsCaught
            THEN [exc |-> NoExc, ret |-> NA, logged |-> TRUE]
            ELSE [exc |-> b.exc, ret |-> <<>>, logged |-> FALSE]

----------------------------------------------------------------------------
(* Sequences over S of length at most n *)

RECURSIVE SeqsUpTo(_, _)
SeqsUpTo(S, n) ==
    IF n = 0 THEN {<<>>}
    ELSE LET shorter == SeqsUpTo(S, n - 1)
         IN shorter \cup {Append(q, x) : q \in {r \in shorter : Len(r) = n - 1}, x \in S}

----------------------------------------------------------------------------
(* csv.writer, default dialect: delimiter ",", quotechar '"', minimal      *)
(* quoting, doubled quotes, line terminator "\r\n"                         *)

\* A cell as csv.writer sees it: None is written empty, a number by str()
CellText(v) ==
    IF v.k = "str" THEN v.s
    ELSE IF v.k = "int" THEN IntStr(v.n)
    ELSE IF v.k = "float" THEN FloatStr(v.n)
    ELSE <<>>

CsvSpecial == {",", "\"", "\r", "\n"}

RECURSIVE DoubleQuotes(_)
DoubleQuotes(t) ==
    IF t = <<>> THEN <<>>
    ELSE (IF t[1] = "\"" THEN <<"\"", "\"">> ELSE <<t[1]>>) \o DoubleQuotes(Tail(t))

CsvField(t) ==
    IF \E i \in 1..Len(t) : t[i] \in CsvSpecial
    THEN <<"\"">> \o DoubleQuotes(t) \o <<"\"">>
    ELSE t

\* writer.writerow(row)
CsvRow(row) ==
    join(<<",">>, [i \in 1..Len(row) |-> CsvField(CellText(row[i]))]) \o <<"\r", "\n">>

\* writerows writing the rows last to first
RECURSIVE CsvRowsReversed(_)
CsvRowsReversed(rows) ==
    IF rows = <<>> THEN <<>>
    ELSE CsvRowsReversed(Tail(rows)) \o CsvRow(rows[1])

\* writer.writerows(rows)
RECURSIVE CsvRows(_)
CsvRows(rows) == IF rows = <<>> THEN <<>> ELSE CsvRow(rows[1]) \o CsvRows(Tail(rows))

----------------------------------------------------------------------------
(* get_library: one item of the response to one row *)

UnknownTitle == <<"U", "n", "k", "n", "o", "w", "n", " ", "T", "i", "t", "l", "e">>
UnknownPurchaseDate ==
    <<"U", "n", "k", "n", "o", "w", "n", " ", "P", "u", "r", "c", "h", "a", "s", "e",
      " ", "D", "a", "t", "e">>
UnknownReleaseDate ==
    <<"U", "n", "k", "n", "o", "w", "n", " ", "R", "e", "l", "e", "a", "s", "e",
      " ", "D", "a", "t", "e">>

\* dict.get(key, default): the default stands in for an absent key only
Get(v, default) == IF v.k = "missing" THEN default ELSE v

\* book.get('authors', []): an absent key gives the empty list
GetList(c) == IF c.k = "missing" THEN [k |-> "list", items |-> <<>>] ELSE c

\* The loop body, lines 87-94: the exception that leaves it, or the row and
\* the number of errors its helpers logged.  book.get on an item that is no
\* dict raises AttributeError, which nothing in get_library catches.
BookRow(book) ==
    IF book.k # "dict" THEN [exc |-> "AttributeError", logged |-> 0, row |-> <<>>]
    ELSE LET authors == get_contributors(GetList(book.authors))
             narrators == get_contributors(GetList(book.narrators))
             title == Get(book.title, StrV(UnknownTitle))
             purchased == Get(book.purchase_date, StrV(UnknownPurchaseDate))
             released == Get(book.release_date, StrV(UnknownReleaseDate))
             runtime == convert_time(Get(book.runtime_length_min, IntV(0)))
             excs == <<authors.exc, narrators.exc, runtime.exc>>
             nlogged == Cardinality({i \in 1..3 :
                            <<authors, narrators, runtime>>[i].logged})
         IN IF \E i \in 1..3 : excs[i] # NoExc
            THEN [exc |-> excs[CHOOSE i \in 1..3 :
                               excs[i] # NoExc /\ \A j \in 1..(i - 1) : excs[j] = NoExc],
                  logged |-> 0, row |-> <<>>]
            ELSE [exc |-> NoExc, logged |-> nlogged,
                  row |-> <<StrV(authors.ret), title, StrV(narrators.ret),
                            runtime.ret[1], StrV(runtime.ret[2]), released, purchased>>]

\* The header row of write_library, line 106
fields ==
    <<StrV(<<"a", "u", "t", "h", "o", "r", "s">>),
      StrV(<<"t", "i", "t", "l", "e">>),
      StrV(<<"n", "a", "r", "r", "a", "t", "o", "r", "s">>),
      StrV(<<"r", "u", "n", "t", "i", "m", "e", "_", "m", "m", "m">>),
      StrV(<<"r", "u", "n", "t", "i", "m", "e", "_", "h", "m">>),
      StrV(<<"r", "e", "l", "e", "a", "s", "e", "d">>),
      StrV(<<"p", "u", "r", "c", "h", "a", "s", "e", "d">>)>>

----------------------------------------------------------------------------
(* The listing responses the model draws from *)

ListOf(cs) == [k |-> "list", items |-> cs]
NullList == [k |-> "null", items |-> <<>>]
MissingList == [k |-> "missing", items |-> <<>>]

Book(authors, narrators, title, runtime, released, purchased) ==
    [k |-> "dict", authors |-> authors, narrators |-> narrators, title |-> title,
     runtime_length_min |-> runtime, release_date |-> released,
     purchase_date |-> purchased]

\* A complete item
BookPlain ==
    Book(ListOf(<<Contributor("dict", StrV(<<"A">>))>>),
         ListOf(<<Contributor("dict", StrV(<<"B">>))>>),
         StrV(<<"T", "1">>), IntV(125), StrV(<<"2", "0", "2", "0">>),
         StrV(<<"2", "0", "2", "1">>))

\* A complete item whose title holds the characters csv quotes
BookQuoted ==
    Book(ListOf(<<Contributor("dict", StrV(<<"A">>)), Contributor("dict", StrV(<<"C", "D">>))>>),
         ListOf(<<>>),
         StrV(<<"a", ",", "\"", "\n", "b">>), IntV(59), StrV(<<"2", "0", "1", "9">>),
         StrV(<<"2", "0", "2", "2">>))

\* An item with no field at all
BookEmpty ==
    Book(MissingList, MissingList, MissingV, MissingV, MissingV, MissingV)

\* An item whose fields are there and malformed
BookMalformed ==
    Book(NullList,
         ListOf(<<Contributor("dict", StrV(<<"B">>)), Contributor("dict", MissingV)>>),
         NullV, StrV(<<"9", "0">>), NullV, IntV(7))

\* An item whose runtime is a non-integer number
BookFloat ==
    Book(ListOf(<<Contributor("dict", NullV)>>), MissingList,
         StrV(<<"T", "2">>), FloatV(181), MissingV, MissingV)

\* An item record that is no dict
BookNull ==
    [k |-> "null", authors |-> MissingList, narrators |-> MissingList,
     title |-> MissingV, runtime_length_min |-> MissingV,
     release_date |-> MissingV, purchase_date |-> MissingV]

\* An item whose title holds a character UTF-8 cannot encode
BookSurrogate ==
    Book(MissingList, MissingList, StrV(<<"T", Unencodable>>), IntV(0), MissingV, MissingV)

Books ==
    {BookPlain, BookQuoted, BookEmpty, BookMalformed, BookFloat, BookNull, BookSurrogate}

\* The decoded response: a dict whose "items" is a list, absent, or null
Responses ==
    {[items |-> [k |-> "list", items |-> bs]] : bs \in SeqsUpTo(Books, MaxItems)}
        \cup {[items |-> MissingList], [items |-> NullList]}

----------------------------------------------------------------------------
(* The exporter run *)

Info(m) == [level |-> "INFO", msg |-> m]
Error(m) == [level |-> "ERROR", msg |-> m]

\* sys.exit(1) after logging.error(m)
LogAndExit(m) ==
    /\ log' = Append(log, Error(m))
    /\ exitStatus' = 1
    /\ pc' = "exited"
    /\ uncaught' = NoExc

\* An exception no except clause names leaves main: the interpreter prints
\* the traceback and the process ends with status 1; nothing is logged.
Crash(e) ==
    /\ uncaught' = e
    /\ exitStatus' = 1
    /\ pc' = "exited"
    /\ log' = log

\* The exception classes a call into a library can end with: the classes
\* the handlers of the two programs name, and one that none of them names.
\* Which handler, if any, takes an exception depends on its class alone.
Raisable == {"AuthenticationError", "APIError", "OSError", "AttributeError", "TransportError"}

\* The classes the except clauses of get_library name, lines 69 and 81
LoadCaught == {"AuthenticationError"}
RequestCaught == {"APIError"}

\* What from_file can end with, and what the session and the listing call
\* can raise: the class their handler names, or another one (an unreadable
\* file, a failure below the API layer)
LoadRaises == {NoExc} \cup Raisable
RequestRaises == Raisable

\* The class the except clause of write_library names, line 114 (IOError is
\* OSError), and what mkdir, open and the writes can raise
WriteCaught == {"OSError"}
WriteRaises == Raisable

InitExporter ==
    /\ harness = "exporter"
    /\ fn_in = NullV /\ fn_out = NoOutcome /\ fn_pc = "done"
    /\ pc = "start"
    /\ authFileExists \in BOOLEAN
    /\ log = <<>>
    /\ uncaught = NoExc
    /\ exitStatus = -1
    /\ credLoads = 0
    /\ netCalls = 0
    /\ library = NoResponse
    /\ idx = 0
    /\ book_list = <<>>
    /\ dataDirExists \in BOOLEAN
    /\ csvFile = NoFile
    /\ ProvisionerOff

\* What setup_logging can raise: logging.FileHandler opens audibleLibrary.log
\* (line 12), and nothing catches the OSError of a log file that cannot be
\* opened
SetupRaises == {NoExc} \cup Raisable

\* main, lines 119-123, with setup_logging, lines 7-15
Start ==
    /\ harness = "exporter" /\ pc = "start"
    /\ \E e \in SetupRaises :
          IF e = NoExc
          THEN /\ log' = Append(log, Info("Starting Audible library retrieval."))
               /\ pc' = "check_auth_file"
               /\ UNCHANGED <<uncaught, exitStatus>>
          ELSE Crash(e)
    /\ UNCHANGED <<authFileExists, credLoads, netCalls, library,
                   idx, book_list, dataDirExists, csvFile>>
    /\ UNCHANGED <<harness, fnVars, provVars>>

\* What auth_file.exists() can end with: Path.exists answers False for a
\* path that is not there and lets other failures of the stat call out (a
\* directory that may not be searched raises PermissionError)
ExistsRaises == {NoExc} \cup Raisable

\* get_library, lines 63-65.  Nothing catches what exists() raises.
CheckAuthFile ==
    /\ harness = "exporter" /\ pc = "check_auth_file"
    /\ \E e \in ExistsRaises :
          IF e # NoExc THEN Crash(e)
          ELSE IF ~authFileExists
          THEN LogAndExit("Authentication file not found")
          ELSE pc' = "load_auth" /\ UNCHANGED <<log, exitStatus, uncaught>>
    /\ UNCHANGED <<authFileExists, credLoads, netCalls, library, idx, book_list,
                   dataDirExists, csvFile>>
    /\ UNCHANGED <<harness, fnVars, provVars>>

\* get_library, lines 67-71
LoadAuth ==
    /\ harness = "exporter" /\ pc = "load_auth"
    /\ credLoads' = credLoads + 1
    /\ \E e \in LoadRaises :
          IF e = NoExc THEN pc' = "request" /\ UNCHANGED <<log, exitStatus, uncaught>>
          ELSE IF e \in LoadCaught THEN LogAndExit("Failed to authenticate")
          ELSE Crash(e)
    /\ UNCHANGED <<authFileExists, netCalls, library, idx, book_list, dataDirExists,
                   csvFile>>
    /\ UNCHANGED <<harness, fnVars, provVars>>

\* get_library, lines 73-83.  The try block opens the session (Client() and
\* its __enter__, line 74), makes the listing call (lines 75-80) and closes
\* the session (__exit__); each of the three can raise, and the except clause
\* of line 81 decides by class.  The listing call is counted when it is
\* made; the response is bound when the call returns.
Request ==
    /\ harness = "exporter" /\ pc = "request"
    /\ \/ /\ netCalls' = netCalls + 1
          /\ \E r \in Responses : library' = r
          /\ pc' = "transform"
          /\ UNCHANGED <<log, exitStatus, uncaught>>
       \/ /\ \/ UNCHANGED <<netCalls, library>>
             \/ netCalls' = netCalls + 1 /\ library' = library
             \/ netCalls' = netCalls + 1 /\ \E r \in Responses : library' = r
          /\ \E e \in RequestRaises :
                IF e \in RequestCaught THEN LogAndExit("API request failed") ELSE Crash(e)
    /\ UNCHANGED <<authFileExists, credLoads, idx, book_list, dataDirExists, csvFile>>
    /\ UNCHANGED <<harness, fnVars, provVars>>

\* Errors logged by the helpers of one loop turn
RECURSIVE HelperErrors(_)
HelperErrors(n) == IF n = 0 THEN <<>> ELSE <<Error("helper")>> \o HelperErrors(n - 1)

\* get_library, lines 85-96: one turn of the loop, or its end.
\* library.get("items", []) gives [] for an absent key; iterating None
\* raises TypeError, uncaught.
Transform ==
    /\ harness = "exporter" /\ pc = "transform"
    /\ LET items == GetList(library.items)
       IN IF items.k # "list"
          THEN Crash("TypeError") /\ UNCHANGED <<idx, book_list>>
          ELSE IF idx < Len(items.items)
          THEN LET r == BookRow(items.items[idx + 1])
               IN IF r.exc # NoExc
                  THEN Crash(r.exc) /\ UNCHANGED <<idx, book_list>>
                  ELSE /\ book_list' = Append(book_list, r.row)
                       /\ idx' = idx + 1
                       /\ log' = log \o HelperErrors(r.logged)
                       /\ UNCHANGED <<pc, exitStatus, uncaught>>
          ELSE /\ pc' = "write"
               /\ UNCHANGED <<idx, book_list, log, exitStatus, uncaught>>
    /\ UNCHANGED <<authFileExists, credLoads, netCalls, library, dataDirExists, csvFile>>
    /\ UNCHANGED <<harness, fnVars, provVars>>

\* A row the UTF8 encoder of the file accepts
Encodable(row) ==
    \A i \in 1..Len(row) : \A j \in 1..Len(CellText(row[i])) :
        CellText(row[i])[j] # Unencodable

\* The rows before the first one that cannot be encoded
RECURSIVE EncodableRows(_)
EncodableRows(rows) ==
    IF rows = <<>> \/ ~Encodable(rows[1]) THEN <<>>
    ELSE <<rows[1]>> \o EncodableRows(Tail(rows))

\* write_library, lines 106-116.  An IOError can come from mkdir, from open
\* or from a write; open has truncated the file by then and the text goes
\* through a buffer, so a failed write leaves any prefix of it, cut at any
\* character.  A row that cannot be encoded makes its write raise
\* UnicodeEncodeError, which is no IOError: the rows before it are flushed
\* when the file is closed and the exception leaves main.
WriteLibrary ==
    /\ harness = "exporter" /\ pc = "write"
    /\ LET written == CsvRow(fields) \o CsvRows(EncodableRows(book_list))
           complete == Len(EncodableRows(book_list)) = Len(book_list)
       IN \/ /\ complete
             /\ dataDirExists' = TRUE
             /\ csvFile' = [exists |-> TRUE, content |-> written]
             /\ log' = Append(log, Info("Library data written"))
             /\ pc' = "finish"
             /\ UNCHANGED <<exitStatus, uncaught>>
          \/ /\ ~complete
             /\ dataDirExists' = TRUE
             /\ csvFile' = [exists |-> TRUE, content |-> written]
             /\ Crash("UnicodeEncodeError")
          \/ /\ \/ UNCHANGED <<dataDirExists, csvFile>>
                \/ dataDirExists' = TRUE /\ csvFile' = csvFile
                \/ /\ dataDirExists' = TRUE
                   /\ \E n \in 0..Len(written) :
                         csvFile' = [exists |-> TRUE, content |-> SubSeq(written, 1, n)]
             /\ \E e \in WriteRaises :
                   IF e \in WriteCaught THEN LogAndExit("Failed to write CSV file")
                   ELSE Crash(e)
    /\ UNCHANGED <<authFileExists, credLoads, netCalls, library, idx, book_list>>
    /\ UNCHANGED <<harness, fnVars, provVars>>

\* main, line 126, and the normal end of the process
Finish ==
    /\ harness = "exporter" /\ pc = "finish"
    /\ log' = Append(log, Info("Audible library retrieval completed successfully."))
    /\ exitStatus' = 0
    /\ pc' = "exited"
    /\ UNCHANGED <<authFileExists, uncaught, credLoads, netCalls, library, idx,
                   book_list, dataDirExists, csvFile>>
    /\ UNCHANGED <<harness, fnVars, provVars>>

NextExporter ==
    \/ Start
    \/ CheckAuthFile
    \/ LoadAuth
    \/ Request
    \/ Transform
    \/ WriteLibrary
    \/ Finish

----------------------------------------------------------------------------
(* The provisioner run (authenticate.py) *)

\* The code points str.strip() removes: those of str.isspace()
Whitespace ==
    {9, 10, 11, 12, 13, 28, 29, 30, 31, 32, 133, 160, 5760, 8232, 8233, 8239, 8287, 12288}
        \cup (8192..8202)

\* str.strip(): whitespace removed from both ends
RECURSIVE LStrip(_)
LStrip(t) == IF t # <<>> /\ t[1] \in Whitespace THEN LStrip(Tail(t)) ELSE t

RECURSIVE RStrip(_)
RStrip(t) ==
    IF t # <<>> /\ t[Len(t)] \in Whitespace THEN RStrip(SubSeq(t, 1, Len(t) - 1)) ELSE t

strip(t) == RStrip(LStrip(t))

\* The characters the model types: space, form feed, no-break space, "u"
TypedChars == {32, 12, 160, 117}

\* What the user can type at a prompt
TypedTexts == SeqsUpTo(TypedChars, MaxInputLen)

\* The standard input of a run: the two lines typed, or the end of the
\* input where the user name or the password is asked for
Stdins ==
    {[user |-> u, password |-> p, eof |-> "none"] : u \in TypedTexts, p \in TypedTexts}
        \cup {[user |-> u, password |-> <<>>, eof |-> "password"] : u \in TypedTexts}
        \cup {[user |-> <<>>, password |-> <<>>, eof |-> "user"]}

\* sys.exit(1) after print(m)
PrintAndExit(m) ==
    /\ stdout' = Append(stdout, m)
    /\ exitStatus' = 1
    /\ pc' = "exited"
    /\ uncaught' = NoExc

\* An exception no except clause of main names: traceback, status 1
ProvCrash(e) ==
    /\ uncaught' = e
    /\ exitStatus' = 1
    /\ pc' = "exited"
    /\ stdout' = stdout

\* The classes the except clauses of main name, lines 25, 37 and 41
\* (IOError is OSError)
LoginCaught == {"AuthenticationError"}
ChmodCaught == {"AttributeError"}
SaveCaught == {"OSError"}

\* What from_login and os.chmod can end with
LoginRaises == {NoExc} \cup Raisable
ChmodRaises == {NoExc} \cup Raisable

\* What mkdir and auth.to_file can raise
SaveRaises == Raisable

InitProvisioner ==
    /\ harness = "provisioner"
    /\ fn_in = NullV /\ fn_out = NoOutcome /\ fn_pc = "done"
    /\ ExporterFilesOff
    /\ pc = "start"
    /\ uncaught = NoExc
    /\ exitStatus = -1
    /\ stdin \in Stdins
    /\ USERNAME = <<>>
    /\ PASSWORD = <<>>
    /\ calls = <<>>
    /\ stdout = <<>>
    /\ authDirExists \in BOOLEAN
    /\ credFile = NoCredFile

provExporterVars == <<authFileExists, log, credLoads, netCalls, library, idx, book_list,
                      dataDirExists, csvFile>>

\* main, lines 8-9.  input() and getpass() raise EOFError at the end of the
\* input, and nothing catches it.
ReadInput ==
    /\ harness = "provisioner" /\ pc = "start"
    /\ USERNAME' = IF stdin.eof = "user" THEN USERNAME ELSE strip(stdin.user)
    /\ PASSWORD' = IF stdin.eof = "none" THEN strip(stdin.password) ELSE PASSWORD
    /\ IF stdin.eof = "none"
       THEN pc' = "validate" /\ UNCHANGED <<stdout, uncaught, exitStatus>>
       ELSE ProvCrash("EOFError")
    /\ UNCHANGED <<stdin, calls, authDirExists, credFile>>
    /\ UNCHANGED <<harness, fnVars, provExporterVars>>

\* main with only the username validated
ValidateUserOnly ==
    /\ harness = "provisioner" /\ pc = "validate"
    /\ IF USERNAME = <<>>
       THEN PrintAndExit("Username and password cannot be empty.")
       ELSE pc' = "login" /\ UNCHANGED <<stdout, exitStatus, uncaught>>
    /\ UNCHANGED <<stdin, USERNAME, PASSWORD, calls, authDirExists, credFile>>
    /\ UNCHANGED <<harness, fnVars, provExporterVars>>

\* main, lines 13-15
Validate ==
    /\ harness = "provisioner" /\ pc = "validate"
    /\ IF USERNAME = <<>> \/ PASSWORD = <<>>
       THEN PrintAndExit("Username and password cannot be empty.")
       ELSE pc' = "login" /\ UNCHANGED <<stdout, exitStatus, uncaught>>
    /\ UNCHANGED <<stdin, USERNAME, PASSWORD, calls, authDirExists, credFile>>
    /\ UNCHANGED <<harness, fnVars, provExporterVars>>

\* main, lines 17-27
Login ==
    /\ harness = "provisioner" /\ pc = "login"
    /\ calls' = Append(calls, "from_login")
    /\ \E e \in LoginRaises :
          IF e = NoExc THEN pc' = "mkdir" /\ UNCHANGED <<stdout, exitStatus, uncaught>>
          ELSE IF e \in LoginCaught THEN PrintAndExit("Authentication failed")
          ELSE ProvCrash(e)
    /\ UNCHANGED <<stdin, USERNAME, PASSWORD, authDirExists, credFile>>
    /\ UNCHANGED <<harness, fnVars, provExporterVars>>

\* main, line 31, under the except of lines 41-43
MakeAuthDir ==
    /\ harness = "provisioner" /\ pc = "mkdir"
    /\ calls' = Append(calls, "mkdir")
    /\ \/ /\ authDirExists' = TRUE
          /\ pc' = "to_file"
          /\ UNCHANGED <<stdout, exitStatus, uncaught>>
       \/ /\ authDirExists' = authDirExists
          /\ \E e \in SaveRaises :
                IF e \in SaveCaught
                THEN PrintAndExit("Failed to write authentication file")
                ELSE ProvCrash(e)
    /\ UNCHANGED <<stdin, USERNAME, PASSWORD, credFile>>
    /\ UNCHANGED <<harness, fnVars, provExporterVars>>

\* main, line 33, under the except of lines 41-43.  What auth.to_file does
\* to the file is the library's: main goes on to chmod whenever the call
\* returns, and whether it returns or raises the file may be there or not.
SaveCredentials ==
    /\ harness = "provisioner" /\ pc = "to_file"
    /\ calls' = Append(calls, "to_file")
    /\ credFile' \in {credFile, [exists |-> TRUE, mode |-> "default"]}
    /\ \/ /\ pc' = "chmod"
          /\ UNCHANGED <<stdout, exitStatus, uncaught>>
       \/ \E e \in SaveRaises :
             IF e \in SaveCaught
             THEN PrintAndExit("Failed to write authentication file")
             ELSE ProvCrash(e)
    /\ UNCHANGED <<stdin, USERNAME, PASSWORD, authDirExists>>
    /\ UNCHANGED <<harness, fnVars, provExporterVars>>

\* main, lines 35-40, under the except of lines 41-43, and the normal end.
\* os.chmod of a file that is not there raises.
RestrictPermissions ==
    /\ harness = "provisioner" /\ pc = "chmod"
    /\ calls' = Append(calls, "chmod")
    /\ \E e \in ChmodRaises :
          /\ e = NoExc => credFile.exists
          /\ IF e = NoExc \/ e \in ChmodCaught
             THEN /\ credFile' = IF e = NoExc THEN [credFile EXCEPT !.mode = "0600"]
                                              ELSE credFile
                  /\ stdout' = Append(stdout, "Authentication details saved")
                  /\ exitStatus' = 0
                  /\ pc' = "exited"
                  /\ uncaught' = NoExc
             ELSE /\ credFile' = credFile
                  /\ IF e \in SaveCaught
                     THEN PrintAndExit("Failed to write authentication file")
                     ELSE ProvCrash(e)
    /\ UNCHANGED <<stdin, USERNAME, PASSWORD, authDirExists>>
    /\ UNCHANGED <<harness, fnVars, provExporterVars>>

NextProvisioner ==
    \/ ReadInput
    \/ Validate
    \/ Login
    \/ MakeAuthDir
    \/ SaveCredentials
    \/ RestrictPermissions

----------------------------------------------------------------------------
(* Calls of the two pure functions on the values a decoded payload can hold *)

SampleTexts == {<<"a", "b", "c">>, <<"9", "0">>, <<>>}

ConvertInputs ==
    {IntV(n) : n \in -3..MaxMinutes} \cup {FloatV(h) : h \in 0..MaxHalves}
        \cup {StrV(t) : t \in SampleTexts} \cup {NullV}

NameTexts == {<<>>, <<"A">>, <<"B">>, <<"C", "D">>}

\* The elements of a contributor list: dicts with a text name, a dict with
\* no name, a dict whose name is null, and an element that is no dict.
ContributorElems ==
    {Contributor("dict", StrV(t)) : t \in NameTexts}
        \cup {Contributor("dict", MissingV), Contributor("dict", NullV),
              Contributor("null", MissingV)}

ContributorInputs ==
    {[k |-> "list", items |-> cs] : cs \in SeqsUpTo(ContributorElems, MaxContributors)}
        \cup {[k |-> "null", items |-> <<>>]}

InitConvert ==
    /\ harness = "convert_time"
    /\ fn_in \in ConvertInputs
    /\ fn_out = NoOutcome
    /\ fn_pc = "call"
    /\ ExporterOff
    /\ ProvisionerOff

CallConvertTime ==
    /\ harness = "convert_time"
    /\ fn_pc = "call"
    /\ fn_out' = convert_time(fn_in)
    /\ fn_pc' = "done"
    /\ UNCHANGED <<harness, fn_in, expVars, provVars>>

InitContributors ==
    /\ harness = "get_contributors"
    /\ fn_in \in ContributorInputs
    /\ fn_out = NoOutcome
    /\ fn_pc = "call"
    /\ ExporterOff
    /\ ProvisionerOff

CallGetContributors ==
    /\ harness = "get_contributors"
    /\ fn_pc = "call"
    /\ fn_out' = get_contributors(fn_in)
    /\ fn_pc' = "done"
    /\ UNCHANGED <<harness, fn_in, expVars, provVars>>

vars == <<harness, fnVars, expVars, provVars>>

SpecConvert == InitConvert /\ [][CallConvertTime]_vars

SpecContributors == InitContributors /\ [][CallGetContributors]_vars

SpecExporter == InitExporter /\ [][NextExporter]_vars

SpecProvisioner == InitProvisioner /\ [][NextProvisioner]_vars

----------------------------------------------------------------------------
(* Reading a text back: decimal numbers and fields between separators *)

IsDigits(t) == Len(t) > 0 /\ \A i \in 1..Len(t) : \E d \in 1..10 : DigitChars[d] = t[i]

DigitValue(c) == (CHOOSE d \in 1..10 : DigitChars[d] = c) - 1

RECURSIVE DecValue(_)
DecValue(t) ==
    IF t = <<>> THEN 0
    ELSE 10 * DecValue(SubSeq(t, 1, Len(t) - 1)) + DigitValue(t[Len(t)])

\* The fields of t between occurrences of sep, as str.split(sep) gives them
RECURSIVE SplitOn(_, _)
SplitOn(t, sep) ==
    IF \A i \in 1..Len(t) : t[i] # sep THEN <<t>>
    ELSE LET i == CHOOSE j \in 1..Len(t) :
                      t[j] = sep /\ \A l \in 1..(j - 1) : t[l] # sep
         IN <<SubSeq(t, 1, i - 1)>> \o SplitOn(SubSeq(t, i + 1, Len(t)), sep)

----------------------------------------------------------------------------
(* Properties of convert_time *)

ConvertDone == harness = "convert_time" /\ fn_pc = "done"

\* C1: for every non-negative integer m, convert_time(m) returns (m, S)
\* where S reads back as H ":" MM with H the canonical decimal of m div 60
\* and MM exactly two digits whose value is m mod 60; in particular
\* 125 gives "2:05", 59 gives "0:59" and 0 gives "0:00".
ConvertTimeOfNatural ==
    (ConvertDone /\ fn_in.k = "int" /\ fn_in.n >= 0) =>
        /\ fn_out.exc = NoExc
        /\ ~fn_out.logged
        /\ fn_out.ret[1] = fn_in
        /\ LET parts == SplitOn(fn_out.ret[2], ":")
           IN /\ Len(parts) = 2
              /\ IsDigits(parts[1]) /\ IsDigits(parts[2])
              /\ Len(parts[2]) = 2
              /\ Len(parts[1]) > 1 => parts[1][1] # "0"
              /\ DecValue(parts[1]) = fn_in.n \div 60
              /\ DecValue(parts[2]) = fn_in.n % 60
              /\ DecValue(parts[2]) < 60
              /\ 60 * DecValue(parts[1]) + DecValue(parts[2]) = fn_in.n
        /\ fn_in.n = 125 => fn_out.ret[2] = <<"2", ":", "0", "5">>
        /\ fn_in.n = 59 => fn_out.ret[2] = <<"0", ":", "5", "9">>
        /\ fn_in.n = 0 => fn_out.ret[2] = <<"0", ":", "0", "0">>

ConvertTimeOfNaturalWitness ==
    /\ ConvertDone
    /\ fn_in = IntV(125)
    /\ fn_out.ret = <<IntV(125), <<"2", ":", "0", "5">>>>

\* C2 (as claimed): every input that is not an integer (a text, a null, a
\* non-integer number) makes convert_time return (0, "0:00") without raising.
ConvertTimeInvalidGivesDefault ==
    (ConvertDone /\ fn_in.k # "int") =>
        fn_out.exc = NoExc /\ fn_out.ret = ConvertTimeDefault

----------------------------------------------------------------------------
(* Properties of get_contributors *)

ContributorsDone == harness = "get_contributors" /\ fn_pc = "done"

WellFormed(c) == c.k = "dict" /\ c.name.k = "str"

LacksName(c) == c.k # "dict" \/ c.name.k = "missing"

\* C3: on a list whose records all expose a text name, get_contributors
\* returns the names joined by ";" in input order: the result splits on ";"
\* into exactly the input names (so no separator leads or trails), and the
\* empty list gives the empty text, not "N/A".
ContributorsJoined ==
    (ContributorsDone /\ fn_in.k = "list"
        /\ \A i \in 1..Len(fn_in.items) : WellFormed(fn_in.items[i])) =>
        LET cs == fn_in.items
            names == [i \in 1..Len(cs) |-> cs[i].name.s]
        IN /\ fn_out.exc = NoExc
           /\ ~fn_out.logged
           /\ cs = <<>> => fn_out.ret = <<>> /\ fn_out.ret # NA
           /\ cs # <<>> => SplitOn(fn_out.ret, ";") = names

ContributorsJoinedWitness ==
    /\ ContributorsDone
    /\ fn_in.k = "list"
    /\ Len(fn_in.items) = 2
    /\ fn_in.items[1] = Contributor("dict", StrV(<<"A">>))
    /\ fn_in.items[2] = Contributor("dict", StrV(<<"B">>))
    /\ fn_out.ret = <<"A", ";", "B">>

\* C4: get_contributors never raises; when its input is no list (None), or
\* any one element, at whatever position, is no record or lacks the name
\* field, it logs and returns exactly "N/A", whatever well-formed names the
\* list also holds.
ContributorsAllOrNothing ==
    ContributorsDone =>
        /\ fn_out.exc = NoExc
        /\ (fn_in.k # "list" \/ \E i \in 1..Len(fn_in.items) : LacksName(fn_in.items[i])) =>
               fn_out.ret = NA /\ fn_out.logged

ContributorsAllOrNothingWitness ==
    /\ ContributorsDone
    /\ fn_in.k = "list"
    /\ Len(fn_in.items) = 3
    /\ WellFormed(fn_in.items[1]) /\ fn_in.items[1].name.s = <<"A">>
    /\ WellFormed(fn_in.items[2]) /\ fn_in.items[2].name.s = <<"B">>
    /\ fn_in.items[3] = Contributor("dict", MissingV)
    /\ fn_out.ret = NA

----------------------------------------------------------------------------
(* Reading a CSV text back into records of fields, as csv.reader does *)

\* A position is outside quotes when an even number of quote characters
\* precedes it (a doubled quote counts twice)
OutsideQuotes(t, i) == Cardinality({j \in 1..(i - 1) : t[j] = "\""}) % 2 = 0

\* The pieces of t between the positions of cuts, each cut w characters wide
RECURSIVE Pieces(_, _, _, _)
Pieces(t, from, cuts, w) ==
    IF cuts = {} THEN <<SubSeq(t, from, Len(t))>>
    ELSE LET c == CHOOSE x \in cuts : \A y \in cuts : x <= y
         IN <<SubSeq(t, from, c - 1)>> \o Pieces(t, c + w, cuts \ {c}, w)

RECURSIVE Undouble(_)
Undouble(f) ==
    IF f = <<>> THEN <<>>
    ELSE IF Len(f) >= 2 /\ f[1] = "\"" /\ f[2] = "\""
         THEN <<"\"">> \o Undouble(SubSeq(f, 3, Len(f)))
         ELSE <<f[1]>> \o Undouble(Tail(f))

Unquote(f) ==
    IF Len(f) >= 2 /\ f[1] = "\"" /\ f[Len(f)] = "\""
    THEN Undouble(SubSeq(f, 2, Len(f) - 1))
    ELSE f

ReadCsvRecord(r) ==
    LET raw == Pieces(r, 1, {i \in 1..Len(r) : r[i] = "," /\ OutsideQuotes(r, i)}, 1)
    IN [i \in 1..Len(raw) |-> Unquote(raw[i])]

\* The records of the text: it is cut at every "\r\n" outside quotes, and a
\* text that ends with a terminator has no record after it
ReadCsv(t) ==
    LET ends == {i \in 1..(Len(t) - 1) :
                     t[i] = "\r" /\ t[i + 1] = "\n" /\ OutsideQuotes(t, i)}
        raw == Pieces(t, 1, ends, 2)
        whole == IF raw[Len(raw)] = <<>> THEN SubSeq(raw, 1, Len(raw) - 1) ELSE raw
    IN [i \in 1..Len(whole) |-> ReadCsvRecord(whole[i])]

----------------------------------------------------------------------------
(* Properties of the exporter *)

ExporterExited == harness = "exporter" /\ pc = "exited"

ReturnedItems == IF library.items.k = "list" THEN library.items.items ELSE <<>>

\* The lines of a text: it is cut after every line feed
TextLines(t) ==
    LET raw == Pieces(t, 1, {i \in 1..Len(t) : t[i] = "\n"}, 1)
    IN IF raw[Len(raw)] = <<>> THEN SubSeq(raw, 1, Len(raw) - 1) ELSE raw

\* A line without the carriage return that ends it
ChopCR(l) == IF l # <<>> /\ l[Len(l)] = "\r" THEN SubSeq(l, 1, Len(l) - 1) ELSE l

\* No cell of the rows holds a line feed
NoLineBreaks(rows) ==
    \A i \in 1..Len(rows) : \A j \in 1..Len(rows[i]) :
        \A l \in 1..Len(CellText(rows[i][j])) : CellText(rows[i][j])[l] # "\n"

\* C5 (as claimed): a successful run over a response of N items leaves a
\* CSV of exactly N+1 lines: the header line first, then one line of seven
\* fields per item, in the order of the response (line i+1 carries the
\* title of item i).
ExportedLinesInOrder ==
    (ExporterExited /\ exitStatus = 0) =>
        LET lines == TextLines(csvFile.content)
            n == Len(ReturnedItems)
        IN /\ csvFile.exists
           /\ Len(lines) = n + 1
           /\ ReadCsvRecord(ChopCR(lines[1])) = [i \in 1..7 |-> fields[i].s]
           /\ \A i \in 1..n :
                 LET rec == ReadCsvRecord(ChopCR(lines[i + 1]))
                 IN /\ Len(rec) = 7
                    /\ ReturnedItems[i].title.k = "str" =>
                           rec[2] = ReturnedItems[i].title.s
                    /\ ReturnedItems[i].title.k = "missing" =>
                           rec[2] = UnknownTitle

\* C5 (amended): a successful run over a response of N items leaves a CSV
\* of exactly N+1 records: the header first, then one record of seven fields
\* per item, in the order of the response (record i+1 carries the title of
\* item i).  A record whose field holds a line break is written quoted and
\* spans more than one line, so the file has N+1 lines exactly when no
\* field of the rows holds a line break.
ExportedRowsInOrder ==
    (ExporterExited /\ exitStatus = 0) =>
        LET recs == ReadCsv(csvFile.content)
            n == Len(ReturnedItems)
        IN /\ csvFile.exists
           /\ Len(recs) = n + 1
           /\ recs[1] = [i \in 1..7 |-> fields[i].s]
           /\ \A i \in 1..n :
                 /\ Len(recs[i + 1]) = 7
                 /\ ReturnedItems[i].title.k = "str" =>
                        recs[i + 1][2] = ReturnedItems[i].title.s
                 /\ ReturnedItems[i].title.k = "missing" =>
                        recs[i + 1][2] = UnknownTitle
           /\ NoLineBreaks(book_list) <=> (Len(TextLines(csvFile.content)) = n + 1)

ExportedRowsInOrderWitness ==
    /\ ExporterExited /\ exitStatus = 0
    /\ ReturnedItems = <<BookQuoted, BookPlain>>
    /\ Len(ReadCsv(csvFile.content)) = 3
    /\ Len(TextLines(csvFile.content)) = 4
    /\ ReadCsv(csvFile.content)[2][2] = <<"a", ",", "\"", "\n", "b">>
    /\ ReadCsv(csvFile.content)[3][2] = <<"T", "1">>

\* C6 (as claimed): a run started without the credential file has, when it
\* ends, logged an error, a non-zero status, and loaded no credential nor
\* made a listing request.
MissingAuthFileLogsAndStops ==
    (ExporterExited /\ ~authFileExists) =>
        /\ credLoads = 0
        /\ netCalls = 0
        /\ exitStatus # 0
        /\ \E i \in 1..Len(log) : log[i].level = "ERROR"

\* C9 (as claimed): once the listing call has returned, no anomaly of the
\* payload ends the run or leaves main as an exception: no turn of the loop
\* over the returned items ends the run (each goes on with the loop or to
\* the write), and the write never fails on encoding a field of an item.
AnomaliesNeverFatal ==
    [][/\ (harness = "exporter" /\ pc = "transform") =>
              (pc' \in {"transform", "write"} /\ uncaught' = NoExc)
       /\ (harness = "exporter" /\ pc = "write") =>
              uncaught' # "UnicodeEncodeError"]_vars

\* C10 (as claimed): every step that ends the run while the credential is
\* loaded or in the listing request (opening the session, the call, closing
\* the session) logs an error message as it ends the run, with a non-zero
\* status, and the CSV is not written in that run.
LoadAndRequestFailuresLogged ==
    [][(harness = "exporter" /\ pc \in {"load_auth", "request"} /\ pc' = "exited") =>
          /\ Len(log') = Len(log) + 1
          /\ log'[Len(log')].level = "ERROR"
          /\ exitStatus' # 0
          /\ csvFile' = NoFile]_vars

----------------------------------------------------------------------------
(* Properties of the provisioner *)

ProvisionerExited == harness = "provisioner" /\ pc = "exited"

AllWhitespace(t) == \A i \in 1..Len(t) : t[i] \in Whitespace

\* C7: when what was typed as user name or as password is empty or all
\* whitespace, the run never calls the login operation, never creates the
\* auth directory nor writes the credential file, and ends with status 1.
EmptyCredentialsStopEarly ==
    (harness = "provisioner"
        /\ (AllWhitespace(stdin.user) \/ AllWhitespace(stdin.password))) =>
        /\ calls = <<>>
        /\ credFile = NoCredFile
        /\ pc \in {"start", "validate", "exited"}
        /\ pc = "exited" =>
              /\ exitStatus = 1
              /\ stdin.eof = "none" =>
                    /\ uncaught = NoExc
                    /\ stdout = <<"Username and password cannot be empty.">>

EmptyCredentialsStopEarlyWitness ==
    /\ ProvisionerExited
    /\ stdin.eof = "none"
    /\ stdin.user = <<117>>
    /\ stdin.password = <<12, 160>>
    /\ exitStatus = 1
    /\ stdout = <<"Username and password cannot be empty.">>

\* C8 (as claimed): after a successful login and a successful write, a run
\* whose permission change failed still reports success and exits with 0.
ChmodFailureTolerated ==
    (ProvisionerExited /\ Len(calls) = 4 /\ credFile.exists /\ credFile.mode # "0600") =>
        /\ exitStatus = 0
        /\ stdout[Len(stdout)] = "Authentication details saved"

====
